---------------------------- MODULE Spec2Model ----------------------------
(***************************************************************************)
(* Model of src/app.py: the batch payment script.  The row loop reads the  *)
(* sheet in file order and calls send_transaction for each row until the   *)
(* first row with an empty destination; send_transaction makes one attempt *)
(* (normalize amount, load account, fetch base fee, build, submit) and its  *)
(* exception handler either sleeps and calls send_transaction again or     *)
(* writes the row's outcome with log_result.                               *)
(*                                                                         *)
(* The recursion of send_transaction is a tail recursion: after the inner  *)
(* call returns the outer frame returns at once, so the model keeps the    *)
(* arguments of the innermost frame only.                                  *)
(*                                                                         *)
(* Amounts are decimal numerals: a numeric cell is its value in units of   *)
(* 10^-8 ("e8"), the text produced by the .7f format is its value in units *)
(* of 10^-7 ("str7").                                                      *)
(***************************************************************************)
EXTENDS Integers, Sequences, FiniteSets, TLC

VARIABLES
    sheet,                \* the worksheet: row -> [dest, amount, outcome] (columns A, B, D)
    saved,                \* what workbook.save wrote, NotSaved before
    saveCount,            \* number of workbook.save calls
    pc,                   \* position of the script
    row_index,            \* the row loop's enumerate index
    destination_address,  \* send_transaction's arguments, innermost frame
    amount,
    f_row,
    min_gas_fee,
    distributor_account,  \* sequence number of the account object loaded in this attempt
    base_fee,             \* base fee computed in this attempt
    transaction,          \* the transaction built in this attempt, NoTx outside
    ledgerSeq,            \* gateway: the signing account's current sequence number
    ledgerFee,            \* gateway: the recommended base fee
    gateway,              \* the simulated gateway's script (how it answers attempts)
    slept,                \* time-units slept since the last gateway answer of this row
    attempt,              \* history: send_transaction invocations made for the current row
    retries,              \* history: retries of the current row after 504, tx_bad_seq, tx_too_late
    handed,               \* history: the rows handed to send_transaction
    logCount,             \* history: row -> number of log_result calls
    prev,                 \* history: answer and fee floor of the row's previous attempt
    firstReq,             \* history: the request submitted by the row's first attempt
    fetched,              \* history: gateway values as they were at this attempt's fetches
    answer,               \* history: row -> what the row's latest attempt was answered with
    accepted              \* history: row -> number of attempts the gateway accepted

vars == <<sheet, saved, saveCount, pc, row_index, destination_address, amount, f_row,
          min_gas_fee, distributor_account, base_fee, transaction, ledgerSeq,
          ledgerFee, gateway, slept, attempt, retries, handed, logCount, prev,
          firstReq, fetched, answer, accepted>>

-----------------------------------------------------------------------------
(* Bounds of the model *)

\* retries of one row after 504, tx_bad_seq or tx_too_late (the code has no cap on them)
MaxRetries == 2

\* the sequence number up to which other clients of the signing account advance it
MaxSeq == 1

-----------------------------------------------------------------------------
(* Program constants *)

DefaultMinGasFee == 100

FeeCap == 2000

GatewayTimeoutStatus == 504

GatewayTimeoutDelay == 5

BriefDelay == 1

SuccessText == "Success"

BusyText == "Network is too busy at this time. Please try again this transaction at further time."

-----------------------------------------------------------------------------
(* Inputs *)

NumAmount(e8) == [k |-> "num", v |-> e8]

Str7Amount(e7) == [k |-> "str7", v |-> e7]

TextAmount == [k |-> "text", v |-> 0]

Cell(d, a) == [dest |-> d, amount |-> a, outcome |-> ""]

\* a row that holds the outcome of an earlier run in column D
Marked(d, a, o) == [dest |-> d, amount |-> a, outcome |-> o]

One == NumAmount(100000000)

\* 2.12345678
Long == NumAmount(212345678)

\* 0.00000014
Tiny == NumAmount(14)

\* the worksheets of the runs
Sheets ==
    { <<Cell("GA", One), Cell("GB", Long), Cell("", One)>>,
      <<Cell("GA", One), Cell("", NumAmount(0)), Cell("GB", Long)>>,
      <<Cell("GA", TextAmount), Cell("GB", One)>>,
      <<Cell("GA", Tiny), Cell("GB", TextAmount)>>,
      <<Cell("", One), Cell("GA", One)>>,
      <<Cell("GB", Long)>>,
      <<Marked("GA", Tiny, "Success"), Marked("GB", One, "Error - response")>> }

-----------------------------------------------------------------------------
(* The gateway: what server.load_account, server.fetch_base_fee and         *)
(* server.submit_transaction give back or raise.                            *)

\* an exception object: hasStatus says whether it has the attributes status and extras
\* (the SDK's Horizon errors have them, its ConnectionError and Python's ValueError do not);
\* tx is extras['result_codes']['transaction'], "" when extras is None
Exc(n, h, s, t) == [name |-> n, hasStatus |-> h, status |-> s, tx |-> t]

GatewayTimeout == Exc("504 Gateway Timeout", TRUE, 504, "")

BadSeq == Exc("tx_bad_seq", TRUE, 400, "tx_bad_seq")

TooLate == Exc("tx_too_late", TRUE, 400, "tx_too_late")

InsufficientFee == Exc("tx_insufficient_fee", TRUE, 400, "tx_insufficient_fee")

TxFailed == Exc("tx_failed", TRUE, 400, "tx_failed")

ConnectionError == Exc("ConnectionError", FALSE, 0, "")

ValueError == Exc("could not convert string to float", FALSE, 0, "")

\* the scripts of the simulated gateway
Gateways == {"any", "always_fee", "always_504", "always_bad_seq", "always_too_late"}

\* exceptions submit_transaction may raise under script g
SubmitErrors(g) ==
    IF g = "always_fee" THEN {InsufficientFee}
    ELSE IF g = "always_504" THEN {GatewayTimeout}
    ELSE IF g = "always_bad_seq" THEN {BadSeq}
    ELSE IF g = "always_too_late" THEN {TooLate}
    ELSE {GatewayTimeout, BadSeq, TooLate, InsufficientFee, TxFailed, ConnectionError}

\* responses submit_transaction may return under script g: the value of response.get('successful', False)
SubmitReturns(g) == IF g = "any" THEN {TRUE, FALSE} ELSE {}

\* exceptions load_account and fetch_base_fee may raise under script g
CallErrors(g) == IF g = "any" THEN {GatewayTimeout, ConnectionError} ELSE {}

RecommendedFees == {100, 300}

-----------------------------------------------------------------------------
(* Pure functions of the script *)

Max(a, b) == IF a >= b THEN a ELSE b

\* the decimal value, in units of 10^-8, that float() reads from an amount
FloatOf(a) == IF a.k = "str7" THEN 10 * a.v ELSE a.v

\* float() raises ValueError on a cell that is no number
FloatRaises(a) == a.k = "text"

\* f"{x:.7f}": x rounded to 7 fractional digits (to nearest; a tie of the decimal
\* digits goes to even, where Python decides it by the binary value of the float)
Format7(e8) ==
    LET q == e8 \div 10
        r == e8 % 10
    IN  Str7Amount(IF r > 5 \/ (r = 5 /\ q % 2 = 1) THEN q + 1 ELSE q)

\* the formatted text of an earlier attempt is read back in the unit of the cell
NormalizeAmount_WrongUnit(a) == Format7(a.v)

\* amount = f"{float(amount):.7f}"
NormalizeAmount(a) == Format7(FloatOf(a))

\* the recommended fee is dropped
EffectiveFee_FloorOnly(recommended, floor) == floor

\* base_fee = max(base_fee, min_gas_fee)
EffectiveFee(recommended, floor) == Max(recommended, floor)

\* a row counts as blank only when the amount cell is empty too
IsSentinel_WholeRowBlank(row) == row.dest = "" /\ row.amount.v = 0

\* the loop's test "not destination_address"
IsSentinel(row) == row.dest = ""

\* the row index is taken as 0-based
log_result_OffByOne(sh, r, success, message) ==
    [sh EXCEPT ![IF r < Len(sh) THEN r + 1 ELSE r].outcome =
                    IF success THEN SuccessText ELSE message]

\* the success flag is not looked at
log_result_IgnoresFlag(sh, r, success, message) ==
    [sh EXCEPT ![r].outcome = SuccessText]

\* log_result: column D of row r becomes "Success" or the message
log_result(sh, r, success, message) ==
    [sh EXCEPT ![r].outcome = IF success THEN SuccessText ELSE message]

\* f"Error - {response}"
ErrorText == "Error - response"

\* f"Transaction failed: {e}"
FailedText(e) == "Transaction failed: " \o e.name

-----------------------------------------------------------------------------
(* State *)

NotSaved == <<>>

NoTx == [sequence |-> -1, base_fee |-> 0, destination |-> "", amount |-> Str7Amount(0)]

NoPrev == [resp |-> "none", floor |-> 0]

NoReq == [destination |-> "", amount |-> Str7Amount(0), row |-> 0]

NoFetch == [seq |-> -1, fee |-> 0]

Rows == 1..3

Init ==
    /\ sheet \in Sheets
    /\ gateway \in Gateways
    /\ ledgerSeq = 0
    /\ ledgerFee \in RecommendedFees
    /\ saved = NotSaved
    /\ saveCount = 0
    /\ pc = "loop"
    /\ row_index = 0
    /\ destination_address = ""
    /\ amount = Str7Amount(0)
    /\ f_row = 0
    /\ min_gas_fee = 0
    /\ distributor_account = -1
    /\ base_fee = 0
    /\ transaction = NoTx
    /\ slept = 0
    /\ attempt = 0
    /\ retries = 0
    /\ handed = {}
    /\ logCount = [r \in Rows |-> 0]
    /\ prev = NoPrev
    /\ firstReq = NoReq
    /\ fetched = NoFetch
    /\ answer = [r \in Rows |-> "none"]
    /\ accepted = [r \in Rows |-> 0]

-----------------------------------------------------------------------------
(* send_transaction *)

\* the frame is left: send_transaction returns to the row loop
Return ==
    /\ pc' = "loop"
    /\ destination_address' = ""
    /\ amount' = Str7Amount(0)
    /\ f_row' = 0
    /\ min_gas_fee' = 0
    /\ distributor_account' = -1
    /\ base_fee' = 0
    /\ transaction' = NoTx
    /\ slept' = 0
    /\ prev' = NoPrev
    /\ firstReq' = NoReq
    /\ fetched' = NoFetch
    /\ attempt' = 0
    /\ retries' = 0

\* a terminal branch: log_result(row_index, success, message), then return
Finish(success, message) ==
    /\ sheet' = log_result(sheet, f_row, success, message)
    /\ logCount' = [logCount EXCEPT ![f_row] = @ + 1]
    /\ Return

\* the branch sleeps and returns without calling send_transaction again
Retry_GiveUp(e, delay, fee) ==
    /\ Return
    /\ UNCHANGED <<sheet, logCount>>

\* a retrying branch: time.sleep(delay), then send_transaction(destination_address,
\* amount, row_index, fee) runs in a new frame
Retry(e, delay, fee) ==
    /\ e.tx = "tx_insufficient_fee" \/ retries < MaxRetries
    /\ retries' = IF e.tx = "tx_insufficient_fee" THEN retries ELSE retries + 1
    /\ attempt' = attempt + 1
    /\ slept' = delay
    /\ prev' = [resp |-> e.name, floor |-> min_gas_fee]
    /\ min_gas_fee' = fee
    /\ pc' = "try"
    /\ distributor_account' = -1
    /\ base_fee' = 0
    /\ transaction' = NoTx
    /\ fetched' = NoFetch
    /\ UNCHANGED <<sheet, logCount, destination_address, amount, f_row, firstReq>>

\* the exception escapes send_transaction and the row loop: the script dies with a traceback
Propagate ==
    /\ pc' = "crashed"
    /\ UNCHANGED <<sheet, logCount, destination_address, amount, f_row, min_gas_fee,
                   distributor_account, base_fee, transaction, slept, prev, firstReq,
                   fetched, attempt, retries>>

\* the fee floor the retry after 504, tx_bad_seq or tx_too_late is called with:
\* the call passes no min_gas_fee, so the parameter takes its default
RetryFloor == DefaultMinGasFee

\* the retry after tx_insufficient_fee passes the floor undoubled
EscalatedFloor_NoDoubling == min_gas_fee

\* the fee floor the retry after tx_insufficient_fee is called with
EscalatedFloor == 2 * min_gas_fee

\* the test compares with twice the cap
MayEscalate_Late == min_gas_fee < 2 * FeeCap

\* the test that lets tx_insufficient_fee retry
MayEscalate == min_gas_fee < FeeCap

\* the retry after 504 sleeps the brief delay
TimeoutSleep_Brief == BriefDelay

\* the delay before the retry after status 504
TimeoutSleep == GatewayTimeoutDelay

\* the transient branches give up after the second attempt
Handle_CapsRetries(e) ==
    IF ~e.hasStatus THEN Propagate
    ELSE IF e.status = GatewayTimeoutStatus \/ e.tx \in {"tx_bad_seq", "tx_too_late"} THEN
        IF attempt < 2
        THEN Retry(e, IF e.status = GatewayTimeoutStatus THEN TimeoutSleep ELSE BriefDelay,
                   RetryFloor)
        ELSE Finish(FALSE, FailedText(e))
    ELSE IF e.tx = "tx_insufficient_fee" THEN
        IF MayEscalate THEN Retry(e, BriefDelay, EscalatedFloor)
        ELSE Finish(FALSE, BusyText)
    ELSE Finish(FALSE, FailedText(e))

\* the last branch of the handler retries like the transient ones
Handle_RetryOthers(e) ==
    IF ~e.hasStatus THEN Propagate
    ELSE IF e.status = GatewayTimeoutStatus THEN Retry(e, TimeoutSleep, RetryFloor)
    ELSE IF e.tx = "tx_bad_seq" THEN Retry(e, BriefDelay, RetryFloor)
    ELSE IF e.tx = "tx_too_late" THEN Retry(e, BriefDelay, RetryFloor)
    ELSE IF e.tx = "tx_insufficient_fee" THEN
        IF MayEscalate THEN Retry(e, BriefDelay, EscalatedFloor)
        ELSE Finish(FALSE, BusyText)
    ELSE Retry(e, BriefDelay, RetryFloor)

\* "except Exception as e": the handler of send_transaction
Handle(e) ==
    IF ~e.hasStatus THEN Propagate                          \* e.status raises AttributeError
    ELSE IF e.status = GatewayTimeoutStatus THEN Retry(e, TimeoutSleep, RetryFloor)
    ELSE IF e.tx = "tx_bad_seq" THEN Retry(e, BriefDelay, RetryFloor)
    ELSE IF e.tx = "tx_too_late" THEN Retry(e, BriefDelay, RetryFloor)
    ELSE IF e.tx = "tx_insufficient_fee" THEN
        IF MayEscalate THEN Retry(e, BriefDelay, EscalatedFloor)
        ELSE Finish(FALSE, BusyText)
    ELSE Finish(FALSE, FailedText(e))

\* history: the row's latest attempt was answered with n
Answered(n) ==
    /\ answer' = [answer EXCEPT ![f_row] = n]
    /\ UNCHANGED accepted

\* the amount the attempt goes on with after line 58
Normalized == NormalizeAmount(amount)

\* line 58: the first statement of the try block
Normalize ==
    /\ pc = "try"
    /\ IF FloatRaises(amount)
       THEN Handle(ValueError) /\ Answered(ValueError.name)
       ELSE /\ amount' = Normalized
            /\ pc' = "load_account"
            /\ UNCHANGED <<sheet, logCount, destination_address, f_row, min_gas_fee,
                           distributor_account, base_fee, transaction, slept, prev,
                           firstReq, fetched, attempt, retries, answer, accepted>>
    /\ UNCHANGED <<saved, saveCount, row_index, ledgerSeq, ledgerFee, gateway, handed>>

\* the account is loaded once, before the row loop, when the ledger held sequence number 0
LoadedSequence_Stale == IF ledgerSeq > 0 THEN 0 ELSE ledgerSeq

\* the sequence number of the account object the attempt builds on
LoadedSequence == ledgerSeq

\* line 61: server.load_account
LoadAccount ==
    /\ pc = "load_account"
    /\ \/ /\ distributor_account' = LoadedSequence
          /\ fetched' = [fetched EXCEPT !.seq = ledgerSeq]
          /\ pc' = "fetch_base_fee"
          /\ UNCHANGED <<sheet, logCount, destination_address, amount, f_row, min_gas_fee,
                         base_fee, transaction, slept, prev, firstReq, attempt, retries,
                         answer, accepted>>
       \/ \E e \in CallErrors(gateway) : Handle(e) /\ Answered(e.name)
    /\ UNCHANGED <<saved, saveCount, row_index, ledgerSeq, ledgerFee, gateway, handed>>

\* the transaction of lines 68-77: build() takes the account's sequence number plus one
Build(fee) ==
    [sequence |-> distributor_account + 1, base_fee |-> fee,
     destination |-> destination_address, amount |-> amount]

\* lines 64-80: server.fetch_base_fee, the fee floor, build and sign
FetchBaseFee ==
    /\ pc = "fetch_base_fee"
    /\ \/ /\ base_fee' = EffectiveFee(ledgerFee, min_gas_fee)
          /\ fetched' = [fetched EXCEPT !.fee = ledgerFee]
          /\ transaction' = Build(base_fee')
          /\ firstReq' = IF firstReq = NoReq
                         THEN [destination |-> destination_address, amount |-> amount,
                               row |-> f_row]
                         ELSE firstReq
          /\ pc' = "submit"
          /\ UNCHANGED <<sheet, logCount, destination_address, amount, f_row, min_gas_fee,
                         distributor_account, slept, prev, attempt, retries, answer,
                         accepted>>
       \/ \E e \in CallErrors(gateway) : Handle(e) /\ Answered(e.name)
    /\ UNCHANGED <<saved, saveCount, row_index, ledgerSeq, ledgerFee, gateway, handed>>

\* the gateway applies a transaction only if it carries the account's next sequence number
Applies(tx) == tx.sequence = ledgerSeq + 1

\* success is logged but the first attempt does not return: the row is submitted again
OnAccepted_Resubmit ==
    IF attempt = 1
    THEN /\ sheet' = log_result(sheet, f_row, TRUE, "")
         /\ logCount' = [logCount EXCEPT ![f_row] = @ + 1]
         /\ attempt' = attempt + 1
         /\ pc' = "try"
         /\ distributor_account' = -1
         /\ base_fee' = 0
         /\ transaction' = NoTx
         /\ fetched' = NoFetch
         /\ UNCHANGED <<destination_address, amount, f_row, min_gas_fee, slept, prev,
                        firstReq, retries>>
    ELSE Finish(TRUE, "")

\* lines 86-88: the response is marked successful
OnAccepted == Finish(TRUE, "")

\* lines 89-92: the response is returned but not marked successful
OnUnsuccessful == Finish(FALSE, ErrorText)

\* lines 83-92: server.submit_transaction and the check of the response
Submit ==
    /\ pc = "submit"
    /\ \/ /\ TRUE \in SubmitReturns(gateway)
          /\ Applies(transaction)
          /\ ledgerSeq' = transaction.sequence
          /\ OnAccepted
          /\ answer' = [answer EXCEPT ![f_row] = "Accepted"]
          /\ accepted' = [accepted EXCEPT ![f_row] = @ + 1]
       \/ /\ FALSE \in SubmitReturns(gateway)
          /\ OnUnsuccessful
          /\ Answered("Unsuccessful")
          /\ UNCHANGED ledgerSeq
       \/ /\ \E e \in SubmitErrors(gateway) : Handle(e) /\ Answered(e.name)
          /\ UNCHANGED ledgerSeq
    /\ UNCHANGED <<saved, saveCount, row_index, ledgerFee, gateway, handed>>

-----------------------------------------------------------------------------
(* The row loop and the save *)

\* lines 137-144: the next row of sheet.iter_rows; break on an empty destination
RowLoop ==
    /\ pc = "loop"
    /\ IF row_index + 1 > Len(sheet) \/ IsSentinel(sheet[row_index + 1])
       THEN /\ pc' = "save"
            /\ UNCHANGED <<row_index, destination_address, amount, f_row, min_gas_fee,
                           attempt, handed>>
       ELSE /\ row_index' = row_index + 1
            /\ destination_address' = sheet[row_index + 1].dest
            /\ amount' = sheet[row_index + 1].amount
            /\ f_row' = row_index + 1
            /\ min_gas_fee' = DefaultMinGasFee
            /\ attempt' = 1
            /\ handed' = handed \cup {row_index + 1}
            /\ pc' = "try"
    /\ UNCHANGED <<sheet, saved, saveCount, distributor_account, base_fee, transaction,
                   ledgerSeq, ledgerFee, gateway, slept, retries, logCount, prev,
                   firstReq, fetched, answer, accepted>>

\* the workbook is saved only when no row failed
Save_OnlyIfAllSucceeded ==
    /\ pc = "save"
    /\ IF \A r \in handed : sheet[r].outcome = SuccessText
       THEN saved' = sheet /\ saveCount' = saveCount + 1
       ELSE UNCHANGED <<saved, saveCount>>
    /\ pc' = "done"
    /\ UNCHANGED <<sheet, row_index, destination_address, amount, f_row, min_gas_fee,
                   distributor_account, base_fee, transaction, ledgerSeq, ledgerFee,
                   gateway, slept, attempt, retries, handed, logCount, prev, firstReq,
                   fetched, answer, accepted>>

\* line 147: workbook.save
Save ==
    /\ pc = "save"
    /\ saved' = sheet
    /\ saveCount' = saveCount + 1
    /\ pc' = "done"
    /\ UNCHANGED <<sheet, row_index, destination_address, amount, f_row, min_gas_fee,
                   distributor_account, base_fee, transaction, ledgerSeq, ledgerFee,
                   gateway, slept, attempt, retries, handed, logCount, prev, firstReq,
                   fetched, answer, accepted>>

-----------------------------------------------------------------------------
(* The network around the script *)

Running == pc \notin {"done", "crashed"}

\* another client of the signing account gets a transaction applied
OtherSubmitter ==
    /\ Running
    /\ ledgerSeq < MaxSeq
    /\ ledgerSeq' = ledgerSeq + 1
    /\ UNCHANGED <<sheet, saved, saveCount, pc, row_index, destination_address, amount,
                   f_row, min_gas_fee, distributor_account, base_fee, transaction,
                   ledgerFee, gateway, slept, attempt, retries, handed, logCount, prev,
                   firstReq, fetched, answer, accepted>>

\* the fee market moves
FeeMarket ==
    /\ Running
    /\ \E f \in RecommendedFees \ {ledgerFee} : ledgerFee' = f
    /\ UNCHANGED <<sheet, saved, saveCount, pc, row_index, destination_address, amount,
                   f_row, min_gas_fee, distributor_account, base_fee, transaction,
                   ledgerSeq, gateway, slept, attempt, retries, handed, logCount, prev,
                   firstReq, fetched, answer, accepted>>

Step == RowLoop \/ Normalize \/ LoadAccount \/ FetchBaseFee \/ Submit \/ Save

Next == Step \/ OtherSubmitter \/ FeeMarket

Spec == Init /\ [][Next]_vars

\* the script is a running process: a step it can take is taken
FairSpec == Spec /\ WF_vars(Step)

-----------------------------------------------------------------------------
(* Properties *)

InAttempt == pc \in {"try", "load_account", "fetch_base_fee", "submit"}

RetryableSameFloor == {GatewayTimeout.name, BadSeq.name, TooLate.name}

RECURSIVE Pow2(_)
Pow2(n) == IF n = 0 THEN 1 ELSE 2 * Pow2(n - 1)

\* column D of row r, "" for a row the sheet does not have
OutcomeOf(r) == IF r \in 1..Len(sheet) THEN sheet[r].outcome ELSE ""

\* row r exists and its amount cell is a number
NumericRow(r) == r \in 1..Len(sheet) /\ sheet[r].amount.k # "text"

\* the step in which the gateway accepts the submitted transaction
AcceptedStep == pc = "submit" /\ pc' = "loop" /\ ledgerSeq' = transaction.sequence
                /\ ledgerSeq' # ledgerSeq

\* C1: against a gateway that answers every attempt with tx_insufficient_fee, no
\* attempt is submitted with a fee floor of 2000 or more.
C1_NoSubmitAtOrAboveCap ==
    (gateway = "always_fee" /\ pc = "submit") => min_gas_fee < 2000

\* C2: the attempt that follows a 504, tx_bad_seq or tx_too_late answer runs with the
\* fee floor of the attempt that was answered.
C2_RetryKeepsFloor ==
    (pc = "try" /\ prev.resp \in RetryableSameFloor) => min_gas_fee = prev.floor

\* C3: no exception leaves send_transaction: a failure that is not retried is written
\* as the row's outcome and the row loop goes on.
C3_NoExceptionEscapes ==
    pc # "crashed"

\* C4: a row handed to send_transaction has no outcome written while its attempts
\* run, and log_result has been called exactly once for it when send_transaction is over.
C4_LoggedExactlyOnce ==
    \A r \in handed :
        IF r = f_row /\ InAttempt THEN logCount[r] = 0 ELSE logCount[r] = 1

\* the index of the first row with an empty destination, Len(sheet) + 1 if there is none
FirstBlank ==
    CHOOSE i \in 1..(Len(sheet) + 1) :
        /\ i = Len(sheet) + 1 \/ sheet[i].dest = ""
        /\ \A j \in 1..(i - 1) : sheet[j].dest # ""

\* C5: no row at or after the first row with an empty destination is ever handed to
\* send_transaction or given an outcome; the rows before it are taken in file order,
\* each after all earlier ones are finished, and the loop ends only when all are.
C5_SentinelEndsRun ==
    /\ \A r \in 1..Len(sheet) :
          r >= FirstBlank => r \notin handed /\ logCount[r] = 0 /\ sheet[r].outcome = ""
    /\ \A r \in handed : \A q \in 1..(r - 1) : q \in handed /\ logCount[q] = 1
    /\ pc \in {"save", "done"} => handed = 1..(FirstBlank - 1)

C5_Witness ==
    /\ pc = "done"
    /\ Len(sheet) = 3 /\ sheet[2].dest = "" /\ sheet[3].dest # ""
    /\ handed = {1} /\ logCount[1] = 1

\* C6: when an attempt of row n+1 runs, row n has reached a terminal state and its
\* outcome is written; the attempts that run are those of the last row handed over.
C6_OneRowAtATime ==
    /\ \A r \in handed : r > 1 => logCount[r - 1] = 1 /\ sheet[r - 1].outcome # ""
    /\ InAttempt => f_row \in handed /\ \A r \in handed : r <= f_row

C6_Witness ==
    pc = "submit" /\ f_row = 2 /\ attempt = 1 /\ sheet[1].outcome = SuccessText

\* C7: against a gateway that answers every attempt with tx_insufficient_fee, the
\* attempt after the i-th retried rejection runs with fee floor 100 * 2^i, a row has
\* at most 6 attempts, and every row handed over ends with the "busy" failure message.
C7_FeeEscalation ==
    /\ [](gateway = "always_fee" /\ InAttempt
            => attempt <= 6 /\ min_gas_fee = 100 * Pow2(attempt - 1))
    /\ [](gateway = "always_fee"
            => \A r \in handed : logCount[r] = 1 => sheet[r].outcome = BusyText)
    /\ \A r \in Rows :
          (gateway = "always_fee" /\ r \in handed /\ NumericRow(r))
              ~> (OutcomeOf(r) = BusyText)

C7_Witness ==
    /\ gateway = "always_fee"
    /\ sheet[1].outcome = BusyText
    /\ pc = "submit" /\ f_row = 2 /\ attempt = 6 /\ min_gas_fee = 3200

\* C8: the transaction an attempt submits carries the sequence number and the fee
\* the gateway held when this attempt fetched them; a row whose attempt is accepted
\* after a tx_bad_seq answer ends as Success.
C8_FreshEveryAttempt ==
    /\ [](pc = "submit" =>
            /\ transaction.sequence = fetched.seq + 1
            /\ transaction.base_fee = Max(fetched.fee, min_gas_fee)
            /\ fetched.seq >= 0 /\ fetched.fee > 0)
    /\ [][AcceptedStep /\ prev.resp = "tx_bad_seq"
            => sheet'[f_row].outcome = "Success"]_vars

C8_Witness ==
    /\ pc = "submit" /\ attempt = 2 /\ prev.resp = "tx_bad_seq"
    /\ fetched.seq = 1 /\ fetched.fee = 300 /\ transaction.sequence = 2
    /\ gateway = "any" /\ Applies(transaction)

\* C9: an attempt that follows a 504 answer starts after at least 5 time-units of
\* sleep, one that follows tx_bad_seq, tx_too_late or a retried tx_insufficient_fee
\* after at least 1; a row whose attempt is accepted after a 504 answer ends as Success.
C9_WaitsBeforeRetry ==
    /\ [](InAttempt /\ attempt > 1 =>
            slept >= (IF prev.resp = "504 Gateway Timeout" THEN 5 ELSE 1))
    /\ [](InAttempt /\ attempt > 1 =>
            prev.resp \in {"504 Gateway Timeout", "tx_bad_seq", "tx_too_late",
                           "tx_insufficient_fee"})
    /\ [][AcceptedStep /\ prev.resp = "504 Gateway Timeout"
            => sheet'[f_row].outcome = "Success"]_vars

C9_Witness ==
    /\ pc = "submit" /\ attempt = 2 /\ prev.resp = "504 Gateway Timeout" /\ slept = 5
    /\ gateway = "any" /\ Applies(transaction)

\* C10: every transaction built for a row carries the destination and the normalized
\* amount of the row's first transaction, for the same row index: the row the loop is
\* at and the destination read from it.
C10_RequestImmutable ==
    pc = "submit" =>
        /\ transaction.destination = firstReq.destination
        /\ transaction.amount = firstReq.amount
        /\ f_row = firstReq.row
        /\ firstReq.destination = sheet[f_row].dest
        /\ f_row = row_index

C10_Witness ==
    /\ pc = "submit" /\ attempt >= 3
    /\ sheet[f_row].amount = Long /\ transaction.amount = Str7Amount(21234568)

\* C11: a row whose latest attempt was answered with a rejection that is neither 504
\* nor one of the three retried result codes, or with a response not marked successful,
\* is finished: its failure text is in its outcome cell, written once, and no attempt
\* of that row runs any more.
C11_OtherRejectionEndsRow ==
    \A r \in handed :
        answer[r] \in {"tx_failed", "Unsuccessful"} =>
            /\ logCount[r] = 1
            /\ sheet[r].outcome = (IF answer[r] = "tx_failed"
                                   THEN "Transaction failed: tx_failed"
                                   ELSE "Error - response")
            /\ f_row # r

C11_Witness ==
    /\ pc = "done" /\ Len(sheet) = 3
    /\ answer[1] = "tx_failed" /\ answer[2] = "Unsuccessful"
    /\ sheet[1].outcome = "Transaction failed: tx_failed"

\* C12: a row whose latest attempt was accepted holds "Success"; a row finished in
\* any other way holds a non-empty text other than "Success": among finished rows
\* "Success" is in the cell if and only if the last attempt was accepted.
C12_SuccessIffAccepted ==
    \A r \in handed :
        /\ answer[r] = "Accepted" => logCount[r] = 1 /\ sheet[r].outcome = "Success"
        /\ logCount[r] = 1 /\ answer[r] # "Accepted" => sheet[r].outcome \notin {"", "Success"}
        /\ logCount[r] = 1 => (sheet[r].outcome = "Success" <=> answer[r] = "Accepted")

C12_Witness ==
    /\ pc = "done" /\ Len(sheet) = 2 /\ sheet[1].amount = Tiny
    /\ answer[1] = "tx_failed" /\ sheet[1].outcome = "Transaction failed: tx_failed"
    /\ answer[2] = "Accepted" /\ sheet[2].outcome = "Success"

\* every row before the first empty destination (every row, if there is none) has its outcome
AllTerminal == \A r \in 1..(FirstBlank - 1) : logCount[r] = 1

\* C13: the workbook is saved at most once, only when every row before the sentinel
\* is finished, and what is saved is the sheet with all their outcomes; once all these
\* rows are finished the save happens, whatever their outcomes are.
C13_SavedOnceAfterAllRows ==
    /\ [](saveCount <= 1)
    /\ [](pc = "save" \/ saveCount = 1 => AllTerminal)
    /\ [](pc = "done" => saveCount = 1 /\ saved = sheet)
    /\ [](saveCount = 1 => \A r \in 1..(FirstBlank - 1) : saved[r].outcome = sheet[r].outcome
                                                         /\ saved[r].outcome # "")
    /\ AllTerminal ~> (saveCount = 1)

C13_Witness ==
    /\ pc = "done" /\ saveCount = 1 /\ Len(saved) = 3
    /\ saved[1].outcome = "Success" /\ saved[2].outcome = BusyText

\* the retries of the current row that tx_insufficient_fee triggered: every retry
\* adds one to attempt, the retries after 504, tx_bad_seq and tx_too_late add one to retries
FeeRetries == attempt - 1 - retries

\* C14: within one row tx_insufficient_fee triggers at most five retries (the sixth
\* such answer ends the row), whatever other retried answers lie between them.
C14_AtMostFiveFeeRetries ==
    InAttempt => FeeRetries <= 5

\* the gateways that give every attempt the same transient answer
AlwaysTransient == {"always_504", "always_bad_seq", "always_too_late"}

C16_FeeIsMaxOfRecommendedAndFloor ==
    pc = "submit" =>
        /\ transaction.base_fee = base_fee
        /\ base_fee >= min_gas_fee
        /\ base_fee >= fetched.fee
        /\ base_fee \in {min_gas_fee, fetched.fee}

C16_Witness ==
    /\ pc = "submit" /\ min_gas_fee = 200 /\ fetched.fee = 300 /\ ledgerFee = 100
    /\ transaction.base_fee = 300

\* C17: while a row is in send_transaction its fee floor is one of 100, 200, 400, 800,
\* 1600, 3200, and the first attempt of every row runs with floor 100.
C17_FloorRange ==
    f_row # 0 =>
        /\ min_gas_fee \in {100, 200, 400, 800, 1600, 3200}
        /\ attempt = 1 => min_gas_fee = 100

C17_Witness ==
    /\ gateway = "any" /\ sheet[1].outcome = BusyText
    /\ f_row = 2 /\ attempt = 1 /\ pc = "submit" /\ min_gas_fee = 100

\* C18: the gateway accepts at most one attempt of a row, and a row with an accepted
\* attempt is finished: that attempt was its last one.
C18_AcceptedIsLast ==
    \A r \in Rows :
        /\ accepted[r] <= 1
        /\ accepted[r] = 1 => answer[r] = "Accepted" /\ f_row # r /\ logCount[r] = 1

C18_Witness ==
    /\ accepted[1] = 1 /\ accepted[2] = 1 /\ pc = "done"

\* C19: no step changes the number of rows, a destination cell or an amount cell,
\* and a step changes no outcome cell but that of the row in send_transaction.
C19_OnlyOwnOutcomeChanges ==
    [][/\ Len(sheet') = Len(sheet)
       /\ \A r \in 1..Len(sheet) :
            /\ sheet'[r].dest = sheet[r].dest
            /\ sheet'[r].amount = sheet[r].amount
            /\ r # f_row => sheet'[r].outcome = sheet[r].outcome]_vars

C19_Witness ==
    /\ Len(sheet) = 2 /\ sheet[1].outcome = BusyText /\ sheet[1].amount = Tiny
    /\ sheet[2].outcome = "Error - response" /\ sheet[2].amount = One
    /\ f_row = 2 /\ pc = "submit" /\ attempt = 2

=============================================================================
